---- MODULE Spec2Model ----
(***************************************************************************)
(* wir2wav: conversion of .wir impulse response files to .wav files.       *)
(*                                                                         *)
(* The model follows src/wir2wav.py: the main loop constructs a WIR from a *)
(* file (WIR.__init__), and WIR.writeWav optionally removes channel 0      *)
(* (WIR.dataWithChannelRemoved), announces the file (print of str(wir),    *)
(* which evaluates WIR.durationSecs), opens the destination and writes the *)
(* RIFF/fmt header, the data header and the samples.  Files are sequences  *)
(* of bytes (0..255); struct.pack / struct.unpack are modelled by their    *)
(* little-endian encodings and by the struct.error they raise.             *)
(*                                                                         *)
(* TLC's integers are 32-bit signed, so frame rates are drawn below 2^31   *)
(* and "fits an unsigned 32-bit slot" is decided by division, never by     *)
(* computing a product that exceeds 2^31 - 1.  struct.unpack("H"/"I") uses *)
(* the host's byte order; the model is of a little-endian host.            *)
(***************************************************************************)
EXTENDS Integers, Sequences, FiniteSets, TLC

VARIABLES
    pc,             \* position of the script / of writeWav
    file,           \* bytes of the .wir file being loaded
    header,         \* self.header
    data,           \* self.data
    numChannels,    \* self.numChannels
    framerate,      \* self.framerate
    fs2,            \* self.fs2
    channelsMask,   \* self.channelsMask
    removeAdditionalMonoChannel,  \* parameter of writeWav
    channelIdx,     \* parameter of dataWithChannelRemoved
    buf,            \* io.BytesIO of dataWithChannelRemoved
    framesize,      \* local of dataWithChannelRemoved
    offs,           \* local of dataWithChannelRemoved
    iters,          \* number of iterations of the frame loop executed so far
    result,         \* value returned by dataWithChannelRemoved
    wavData,        \* local `data` of writeWav
    wavChannels,    \* local `numChannels` of writeWav
    wav,            \* the destination file: [exists, bytes]
    wavBefore,      \* the destination as it was before writeWav was called
    error,          \* the exception that ended the script, or "none"
    numConversions  \* counter of the main loop

vars == <<pc, file, header, data, numChannels, framerate, fs2, channelsMask,
          removeAdditionalMonoChannel, channelIdx, buf, framesize, offs, iters,
          result, wavData, wavChannels, wav, wavBefore, error, numConversions>>

----------------------------------------------------------------------------
(* Bounds of the model *)

\* longest payload (bytes after the 40-byte header) of an input file
MaxLen == 24
\* largest channel count given to dataWithChannelRemoved when it is called directly
MaxChannels == 3
\* number of files the main loop converts at most
MaxFiles == 1
\* cap on the iteration counter of the frame loop (the loop itself has none)
MaxIters == MaxLen + 2

----------------------------------------------------------------------------
(* Program constants *)

MONO == 4
STEREO == 8
TRUE_STEREO == 16
\* f.read(40)
HeaderLen == 40
\* bytes of one 32-bit float sample
SampleBytes == 4
\* largest value of struct format 'H'
U16Max == 65535
\* (2^32 - 1) \div 4: the largest v with v * 4 inside struct format 'I'
U32MaxDiv4 == 1073741823

----------------------------------------------------------------------------
(* Bytes, slices, struct *)

Min(a, b) == IF a < b THEN a ELSE b

\* Python's s[a:b] for 0 <= a, 0 <= b (0-based, end exclusive, clamped)
PySlice(s, a, b) ==
    IF Min(b, Len(s)) <= a THEN << >> ELSE SubSeq(s, a + 1, Min(b, Len(s)))

\* Python's s[a:]
PyTail(s, a) == PySlice(s, a, Len(s))

\* struct.pack('<H', v) for a v that fits
PackH(v) == << v % 256, (v \div 256) % 256 >>

\* struct.pack('<I', v) for a v that fits
PackI(v) == << v % 256, (v \div 256) % 256, (v \div 65536) % 256, (v \div 16777216) % 256 >>

\* struct.unpack("H", b)[0] on a little-endian host, b of 2 bytes
UnpackH(b) == b[1] + 256 * b[2]

\* struct.unpack("I", b)[0] on a little-endian host, b of 4 bytes
UnpackI(b) == b[1] + 256 * b[2] + 65536 * b[3] + 16777216 * b[4]

\* struct.pack raises struct.error unless 0 <= v <= 65535 for 'H'
FitsH(v) == 0 <= v /\ v <= U16Max

\* struct.pack raises struct.error unless 0 <= v <= 2^32 - 1 for 'I';
\* every integer of the model is below 2^31, so only the sign decides
FitsI(v) == 0 <= v

\* whether n * r * 4 fits 'I', without computing it
FitsIProduct4(n, r) ==
    IF n = 0 \/ r = 0 THEN TRUE
    ELSE IF (n < 0) # (r < 0) THEN FALSE
    ELSE IF n < 0 THEN (-r) <= U32MaxDiv4 \div (-n)
    ELSE r <= U32MaxDiv4 \div n

RECURSIVE BitAnd(_, _)
\* Python's a & b for a, b >= 0
BitAnd(a, b) ==
    IF a = 0 \/ b = 0 THEN 0
    ELSE (a % 2) * (b % 2) + 2 * BitAnd(a \div 2, b \div 2)

----------------------------------------------------------------------------
(* Input files *)

\* channel counts of the header field `channels`
ChannelCounts == {0, 1, 2, 3, U16Max}

\* values of the header field `fs` (all below 2^31)
FrameRates == {0, 44100, 1073741824}

\* values of the header field `i4`
Masks == {MONO, STEREO, MONO + STEREO, MONO + TRUE_STEREO}

\* n payload bytes, pairwise different, so that a byte's origin is visible
Payload(n) == [k \in 1..n |-> (7 * k + 3) % 256]

\* the 40-byte WirHeader of the format comment, for a payload of n bytes
WirHeader(c, r, m, n) ==
    << 119, 118, 73, 82 >> \o PackI(n + HeaderLen - 8)
    \o << 118, 101, 114, 49, 102, 109, 116, 32 >> \o PackI(16)
    \o PackH(3) \o PackH(c) \o PackI(r) \o PackI(r) \o PackH(m) \o PackH(23)
    \o << 100, 97, 116, 97 >>

\* complete files: a header and 0..MaxLen payload bytes (ragged lengths too)
FullFiles ==
    { WirHeader(c, r, m, n) \o Payload(n) :
        c \in ChannelCounts, r \in FrameRates, m \in Masks, n \in 0..MaxLen }

\* files that end inside the header
ShortFiles ==
    { SubSeq(WirHeader(c, r, m, 0), 1, l) :
        c \in ChannelCounts, r \in FrameRates, m \in Masks, l \in 0..(HeaderLen - 1) }

InputFiles == FullFiles \cup ShortFiles

\* what is at the destination path before the conversion
Absent == [exists |-> FALSE, bytes |-> << >>]
DestBefore == { Absent, [exists |-> TRUE, bytes |-> << 82, 73, 70, 70 >>] }

----------------------------------------------------------------------------
(* WIR.__init__ *)

\* struct.unpack(fmt, b) raises struct.error unless b has exactly `size` bytes
CanUnpack(b, size) == Len(b) = size

\* all four unpack calls of __init__ succeed on header h
HeaderParses(h) ==
    /\ CanUnpack(PySlice(h, 22, 24), 2)
    /\ CanUnpack(PySlice(h, 24, 28), 4)
    /\ CanUnpack(PySlice(h, 28, 32), 4)
    /\ CanUnpack(PySlice(h, 32, 34), 2)

\* wir = WIR(path): the file is read and the four fields are unpacked
Load ==
    /\ pc = "main"
    /\ numConversions < MaxFiles
    /\ \E f \in InputFiles, d \in DestBefore :
         LET h == PySlice(f, 0, HeaderLen) IN
         /\ HeaderParses(h)
         /\ file' = f
         /\ header' = h
         /\ data' = PyTail(f, HeaderLen)
         /\ numChannels' = UnpackH(PySlice(h, 22, 24))
         /\ framerate' = UnpackI(PySlice(h, 24, 28))
         /\ fs2' = UnpackI(PySlice(h, 28, 32))
         /\ channelsMask' = UnpackH(PySlice(h, 32, 34))
         /\ wav' = d
         /\ wavBefore' = d
    /\ pc' = "loaded"
    /\ UNCHANGED <<removeAdditionalMonoChannel, channelIdx, buf, framesize, offs,
                   iters, result, wavData, wavChannels, error, numConversions>>

\* wir = WIR(path) raises struct.error: one of the slices is too short
LoadFail ==
    /\ pc = "main"
    /\ numConversions < MaxFiles
    /\ \E f \in InputFiles :
         LET h == PySlice(f, 0, HeaderLen) IN
         /\ ~HeaderParses(h)
         /\ file' = f
         /\ header' = h
         /\ data' = PyTail(f, HeaderLen)
    /\ pc' = "failed"
    /\ error' = "struct.error"
    /\ UNCHANGED <<numChannels, framerate, fs2, channelsMask,
                   removeAdditionalMonoChannel, channelIdx, buf, framesize, offs,
                   iters, result, wavData, wavChannels, wav, wavBefore,
                   numConversions>>

----------------------------------------------------------------------------
(* WIR.dataWithChannelRemoved *)

\* FrameWithout with the excised span one sample too far to the right
FrameWithoutNextSample(frame, idx) ==
    PySlice(frame, 0, (idx + 1) * SampleBytes) \o PyTail(frame, (idx + 1) * SampleBytes + 4)

\* FrameWithout with a tail slice that starts one byte early
FrameWithoutTailOffByOne(frame, idx) ==
    (IF idx > 0 THEN PySlice(frame, 0, idx * SampleBytes) ELSE << >>)
    \o PyTail(frame, idx * SampleBytes + 3)

\* the two buf.write calls of one iteration: the frame without its sample idx
FrameWithout(frame, idx) ==
    (IF idx > 0 THEN PySlice(frame, 0, idx * SampleBytes) ELSE << >>)
    \o PyTail(frame, idx * SampleBytes + 4)

\* entry of dataWithChannelRemoved(idx): buf, framesize, offs
RemoveEnter(idx) ==
    /\ channelIdx' = idx
    /\ buf' = << >>
    /\ framesize' = numChannels * SampleBytes
    /\ offs' = 0
    /\ iters' = 0
    /\ pc' = "removing"

\* one iteration of `while offs < len(self.data)`
RemoveFrame ==
    /\ pc = "removing"
    /\ offs < Len(data)
    /\ iters < MaxIters
    /\ buf' = buf \o FrameWithout(PySlice(data, offs, offs + framesize), channelIdx)
    /\ offs' = offs + framesize
    /\ iters' = iters + 1
    /\ UNCHANGED <<pc, file, header, data, numChannels, framerate, fs2, channelsMask,
                   removeAdditionalMonoChannel, channelIdx, framesize, result,
                   wavData, wavChannels, wav, wavBefore, error, numConversions>>

\* the loop condition is false: return buf.getvalue()
RemoveReturn ==
    /\ pc = "removing"
    /\ ~(offs < Len(data))
    /\ result' = buf
    /\ pc' = "returned"
    /\ UNCHANGED <<file, header, data, numChannels, framerate, fs2, channelsMask,
                   removeAdditionalMonoChannel, channelIdx, buf, framesize, offs,
                   iters, wavData, wavChannels, wav, wavBefore, error,
                   numConversions>>

----------------------------------------------------------------------------
(* WIR.writeWav *)

\* hasAdditionalMonoChannel without the test `self.channelsMask != MONO`
HasAnyMonoChannel(mask) == BitAnd(mask, MONO) > 0

\* hasAdditionalMonoChannel
HasAdditionalMonoChannel(mask) == BitAnd(mask, MONO) > 0 /\ mask # MONO

\* writeWav(path, flag), branch that calls self.dataWithChannelRemoved(0)
WriteWavRemove ==
    /\ pc = "loaded"
    /\ \E flag \in BOOLEAN :
         /\ HasAdditionalMonoChannel(channelsMask) /\ flag
         /\ removeAdditionalMonoChannel' = flag
    /\ RemoveEnter(0)
    /\ UNCHANGED <<file, header, data, numChannels, framerate, fs2, channelsMask,
                   result, wavData, wavChannels, wav, wavBefore, error,
                   numConversions>>

\* data = self.dataWithChannelRemoved(0); numChannels = self.numChannels-1
WriteWavRemoved ==
    /\ pc = "returned"
    /\ wavData' = result
    /\ wavChannels' = numChannels - 1
    /\ pc' = "print"
    /\ UNCHANGED <<file, header, data, numChannels, framerate, fs2, channelsMask,
                   removeAdditionalMonoChannel, channelIdx, buf, framesize, offs,
                   iters, result, wav, wavBefore, error, numConversions>>

\* writeWav(path, flag), else branch: data and channel count as loaded
WriteWavKeep ==
    /\ pc = "loaded"
    /\ \E flag \in BOOLEAN :
         /\ ~(HasAdditionalMonoChannel(channelsMask) /\ flag)
         /\ removeAdditionalMonoChannel' = flag
    /\ wavData' = data
    /\ wavChannels' = numChannels
    /\ pc' = "print"
    /\ UNCHANGED <<file, header, data, numChannels, framerate, fs2, channelsMask,
                   channelIdx, buf, framesize, offs, iters, result, wav, wavBefore,
                   error, numConversions>>

\* durationSecs divides by self.numChannels and by self.framerate
DurationDefined == numChannels # 0 /\ framerate # 0

\* print(f"... for {wir} ..."): str(wir) evaluates wir.durationSecs(), and the
\* global wir of the main loop is the object writeWav was called on
Announce ==
    /\ pc = "print"
    /\ DurationDefined
    /\ pc' = "open"
    /\ UNCHANGED <<file, header, data, numChannels, framerate, fs2, channelsMask,
                   removeAdditionalMonoChannel, channelIdx, buf, framesize, offs,
                   iters, result, wavData, wavChannels, wav, wavBefore, error,
                   numConversions>>

\* the print raises ZeroDivisionError
AnnounceFail ==
    /\ pc = "print"
    /\ ~DurationDefined
    /\ pc' = "failed"
    /\ error' = "ZeroDivisionError"
    /\ UNCHANGED <<file, header, data, numChannels, framerate, fs2, channelsMask,
                   removeAdditionalMonoChannel, channelIdx, buf, framesize, offs,
                   iters, result, wavData, wavChannels, wav, wavBefore,
                   numConversions>>

\* open(path, "wb"): the destination is created or truncated
OpenWav ==
    /\ pc = "open"
    /\ wav' = [exists |-> TRUE, bytes |-> << >>]
    /\ pc' = "header"
    /\ UNCHANGED <<file, header, data, numChannels, framerate, fs2, channelsMask,
                   removeAdditionalMonoChannel, channelIdx, buf, framesize, offs,
                   iters, result, wavData, wavChannels, wavBefore, error,
                   numConversions>>

\* the arguments of struct.pack('<ccccIccccccccIHHIIHH', ...) fit their slots
HeaderFits(byteCount, channels, sampleRate) ==
    /\ FitsI(byteCount + 44 - 8)
    /\ FitsH(channels)
    /\ FitsI(sampleRate)
    /\ FitsIProduct4(channels, sampleRate)

\* PackHeader with a RIFF size that forgets the - 8
PackHeaderRiffSizeTotal(byteCount, channels, sampleRate) ==
    << 82, 73, 70, 70 >> \o PackI(byteCount + 44)
    \o << 87, 65, 86, 69, 102, 109, 116, 32 >>
    \o PackI(16) \o PackH(3) \o PackH(channels) \o PackI(sampleRate)
    \o PackI(channels * sampleRate * 4) \o PackH(4) \o PackH(32)

\* struct.pack('<ccccIccccccccIHHIIHH', ...): the 36 bytes up to bits / sample
PackHeader(byteCount, channels, sampleRate) ==
    << 82, 73, 70, 70 >> \o PackI(byteCount + 44 - 8)
    \o << 87, 65, 86, 69, 102, 109, 116, 32 >>
    \o PackI(16) \o PackH(3) \o PackH(channels) \o PackI(sampleRate)
    \o PackI(channels * sampleRate * 4) \o PackH(4) \o PackH(32)

\* struct.pack('<ccccI', b'd', b'a', b't', b'a', byteCount)
PackDataHeader(byteCount) == << 100, 97, 116, 97 >> \o PackI(byteCount)

\* first wav.write: the RIFF descriptor and the fmt sub-chunk
WriteHeader ==
    /\ pc = "header"
    /\ HeaderFits(Len(wavData), wavChannels, framerate)
    /\ wav' = [wav EXCEPT !.bytes = @ \o PackHeader(Len(wavData), wavChannels, framerate)]
    /\ pc' = "dataheader"
    /\ UNCHANGED <<file, header, data, numChannels, framerate, fs2, channelsMask,
                   removeAdditionalMonoChannel, channelIdx, buf, framesize, offs,
                   iters, result, wavData, wavChannels, wavBefore, error,
                   numConversions>>

\* struct.pack raises struct.error inside the with block: the file is closed
\* as open() left it
WriteHeaderFail ==
    /\ pc = "header"
    /\ ~HeaderFits(Len(wavData), wavChannels, framerate)
    /\ pc' = "failed"
    /\ error' = "struct.error"
    /\ UNCHANGED <<file, header, data, numChannels, framerate, fs2, channelsMask,
                   removeAdditionalMonoChannel, channelIdx, buf, framesize, offs,
                   iters, result, wavData, wavChannels, wav, wavBefore,
                   numConversions>>

\* second wav.write: the data sub-chunk header
WriteDataHeader ==
    /\ pc = "dataheader"
    /\ FitsI(Len(wavData))
    /\ wav' = [wav EXCEPT !.bytes = @ \o PackDataHeader(Len(wavData))]
    /\ pc' = "samples"
    /\ UNCHANGED <<file, header, data, numChannels, framerate, fs2, channelsMask,
                   removeAdditionalMonoChannel, channelIdx, buf, framesize, offs,
                   iters, result, wavData, wavChannels, wavBefore, error,
                   numConversions>>

\* third wav.write: the samples; the with block closes the file
WriteSamples ==
    /\ pc = "samples"
    /\ wav' = [wav EXCEPT !.bytes = @ \o wavData]
    /\ pc' = "written"
    /\ UNCHANGED <<file, header, data, numChannels, framerate, fs2, channelsMask,
                   removeAdditionalMonoChannel, channelIdx, buf, framesize, offs,
                   iters, result, wavData, wavChannels, wavBefore, error,
                   numConversions>>

----------------------------------------------------------------------------
(* the main loop *)

\* writeWav returns and numConversions += 1; the locals of writeWav are gone,
\* and the next iteration binds wir to another file and writes another path
Converted ==
    /\ pc = "written"
    /\ numConversions' = numConversions + 1
    /\ pc' = "main"
    /\ file' = << >>
    /\ header' = << >>
    /\ data' = << >>
    /\ numChannels' = 0
    /\ framerate' = 0
    /\ fs2' = 0
    /\ channelsMask' = 0
    /\ removeAdditionalMonoChannel' = TRUE
    /\ channelIdx' = 0
    /\ buf' = << >>
    /\ framesize' = 0
    /\ offs' = 0
    /\ iters' = 0
    /\ result' = << >>
    /\ wavData' = << >>
    /\ wavChannels' = 0
    /\ wav' = Absent
    /\ wavBefore' = Absent
    /\ UNCHANGED error

\* os.walk is exhausted: the summary is printed
Finish ==
    /\ pc = "main"
    /\ pc' = "exit"
    /\ UNCHANGED <<file, header, data, numChannels, framerate, fs2, channelsMask,
                   removeAdditionalMonoChannel, channelIdx, buf, framesize, offs,
                   iters, result, wavData, wavChannels, wav, wavBefore, error,
                   numConversions>>

\* the script starts: nothing is loaded, numConversions = 0
Init ==
    /\ pc = "main"
    /\ file = << >>
    /\ header = << >>
    /\ data = << >>
    /\ numChannels = 0
    /\ framerate = 0
    /\ fs2 = 0
    /\ channelsMask = 0
    /\ removeAdditionalMonoChannel = TRUE
    /\ channelIdx = 0
    /\ buf = << >>
    /\ framesize = 0
    /\ offs = 0
    /\ iters = 0
    /\ result = << >>
    /\ wavData = << >>
    /\ wavChannels = 0
    /\ wav = Absent
    /\ wavBefore = Absent
    /\ error = "none"
    /\ numConversions = 0

Next ==
    \/ Load
    \/ LoadFail
    \/ WriteWavRemove
    \/ RemoveFrame
    \/ RemoveReturn
    \/ WriteWavRemoved
    \/ WriteWavKeep
    \/ Announce
    \/ AnnounceFail
    \/ OpenWav
    \/ WriteHeader
    \/ WriteHeaderFail
    \/ WriteDataHeader
    \/ WriteSamples
    \/ Converted
    \/ Finish

Spec == Init /\ [][Next]_vars

----------------------------------------------------------------------------
(* dataWithChannelRemoved called directly on a loaded WIR *)

\* a WIR loaded from a file with c channels and n payload bytes
InitRemove ==
    \E c \in 0..MaxChannels, n \in 0..MaxLen :
        LET f == WirHeader(c, 44100, STEREO, n) \o Payload(n)
            h == PySlice(f, 0, HeaderLen)
        IN
        /\ pc = "loaded"
        /\ file = f
        /\ header = h
        /\ data = PyTail(f, HeaderLen)
        /\ numChannels = UnpackH(PySlice(h, 22, 24))
        /\ framerate = UnpackI(PySlice(h, 24, 28))
        /\ fs2 = UnpackI(PySlice(h, 28, 32))
        /\ channelsMask = UnpackH(PySlice(h, 32, 34))
        /\ removeAdditionalMonoChannel = TRUE
        /\ channelIdx = 0
        /\ buf = << >>
        /\ framesize = 0
        /\ offs = 0
        /\ iters = 0
        /\ result = << >>
        /\ wavData = << >>
        /\ wavChannels = 0
        /\ wav = Absent
        /\ wavBefore = Absent
        /\ error = "none"
        /\ numConversions = 0

\* wir.dataWithChannelRemoved(idx)
CallRemove ==
    /\ pc = "loaded"
    /\ \E idx \in 0..MaxChannels : RemoveEnter(idx)
    /\ UNCHANGED <<file, header, data, numChannels, framerate, fs2, channelsMask,
                   removeAdditionalMonoChannel, result, wavData, wavChannels, wav,
                   wavBefore, error, numConversions>>

NextRemove ==
    \/ CallRemove
    \/ RemoveFrame
    \/ RemoveReturn

SpecRemove == InitRemove /\ [][NextRemove]_vars

----------------------------------------------------------------------------
(* Properties *)

\* the call is inside the contract of dataWithChannelRemoved: at least one
\* channel, a valid index, a payload of whole frames
WellFormedCall ==
    /\ numChannels >= 1
    /\ 0 <= channelIdx /\ channelIdx < numChannels
    /\ Len(data) % (numChannels * 4) = 0

\* byte by byte: output byte j comes from frame (j-1) \div ((C-1)*4), at the
\* frame offset that skips the span [i*4, i*4+4)
ExpectedRemoved(d, C, i) ==
    LET out == (C - 1) * 4
        frames == Len(d) \div (C * 4)
    IN [j \in 1..(frames * out) |->
          LET r == (j - 1) % out
          IN d[((j - 1) \div out) * C * 4 + (IF r < i * 4 THEN r ELSE r + 4) + 1]]

\* C1: for C >= 1, 0 <= i < C and a payload of whole frames,
\* dataWithChannelRemoved(i) returns the frames in order, each without the
\* 4 bytes at [i*4, i*4+4) and with its other bytes in their order
C1_ContentLaw ==
    (pc = "returned" /\ WellFormedCall)
        => result = ExpectedRemoved(data, numChannels, channelIdx)

\* C1 witness: two stereo frames, channel 1 removed, the two left samples returned
C1_Witness ==
    /\ pc = "returned"
    /\ numChannels = 2 /\ channelIdx = 1 /\ Len(data) = 16
    /\ result = SubSeq(data, 1, 4) \o SubSeq(data, 9, 12)

\* C5: for C > 1, a valid i and a payload of whole frames the returned length
\* is len(payload) * (C-1) / C = frames * (C-1) * 4, whatever i is
C5_LengthLaw ==
    (pc = "returned" /\ WellFormedCall /\ numChannels > 1)
        => /\ Len(result) * numChannels = Len(data) * (numChannels - 1)
           /\ Len(result) = (Len(data) \div (numChannels * 4)) * (numChannels - 1) * 4

\* C5 witness: two frames of three channels, 24 bytes in, 16 bytes out
C5_Witness ==
    /\ pc = "returned"
    /\ numChannels = 3 /\ channelIdx = 1 /\ Len(data) = 24
    /\ Len(result) = 16

\* the MONO bit (value 4, bit 2) of a mask, by arithmetic
MonoBitSet(m) == (m \div 4) % 2 = 1

\* the policy of C2 in terms of the header mask and the caller's flag
RemovalPolicy ==
    MonoBitSet(channelsMask) /\ channelsMask # 4 /\ removeAdditionalMonoChannel

\* the fields of a written WAV, read back from its bytes
RiffSize == UnpackI(SubSeq(wav.bytes, 5, 8))
FmtSize == UnpackI(SubSeq(wav.bytes, 17, 20))
FmtTag == UnpackH(SubSeq(wav.bytes, 21, 22))
FmtChannels == UnpackH(SubSeq(wav.bytes, 23, 24))
FmtSampleRate == UnpackI(SubSeq(wav.bytes, 25, 28))
FmtByteRate == UnpackI(SubSeq(wav.bytes, 29, 32))
FmtBlockAlign == UnpackH(SubSeq(wav.bytes, 33, 34))
FmtBits == UnpackH(SubSeq(wav.bytes, 35, 36))
DataSize == UnpackI(SubSeq(wav.bytes, 41, 44))
WavSamples == SubSeq(wav.bytes, 45, Len(wav.bytes))

\* C2: writeWav removes a channel iff the mask has MONO, is not MONO alone and
\* removal is not switched off; it removes channel 0 and writes the header
\* count minus 1; otherwise the payload and the header count are written as is
C2_MonoRemovalPolicy ==
    /\ pc \in {"removing", "returned"} => (RemovalPolicy /\ channelIdx = 0)
    /\ pc \in {"print", "open", "header", "dataheader", "samples", "written"}
         => IF RemovalPolicy
            THEN wavChannels = numChannels - 1
            ELSE wavChannels = numChannels /\ wavData = data
    /\ pc = "written"
         => IF RemovalPolicy
            THEN /\ FmtChannels = numChannels - 1
                 /\ Len(data) % (numChannels * 4) = 0
                      => WavSamples = ExpectedRemoved(data, numChannels, 0)
            ELSE /\ FmtChannels = numChannels
                 /\ WavSamples = data

\* C2 witness: mask 12 with 3 channels and default removal gives a 2-channel WAV
C2_Witness ==
    /\ pc = "written"
    /\ channelsMask = 12 /\ numChannels = 3 /\ removeAdditionalMonoChannel
    /\ Len(data) = 24
    /\ FmtChannels = 2
    /\ WavSamples = SubSeq(data, 5, 12) \o SubSeq(data, 17, 24)

\* C3: a completed conversion leaves 44 + byteCount bytes: RIFF, size
\* byteCount + 36, WAVE, fmt size 16, tag 3, 32 bits, byte rate = channels *
\* rate * 4, data size byteCount, then the sample bytes
C3_WavFraming ==
    pc = "written" =>
        LET byteCount == Len(wavData) IN
        /\ wav.exists
        /\ Len(wav.bytes) = 44 + byteCount
        /\ SubSeq(wav.bytes, 1, 4) = << 82, 73, 70, 70 >>
        /\ RiffSize = byteCount + 36
        /\ RiffSize = Len(wav.bytes) - 8
        /\ SubSeq(wav.bytes, 9, 12) = << 87, 65, 86, 69 >>
        /\ SubSeq(wav.bytes, 13, 16) = << 102, 109, 116, 32 >>
        /\ FmtSize = 16
        /\ FmtTag = 3
        /\ FmtSampleRate = framerate
        /\ FmtBits = 32
        /\ FmtByteRate = FmtChannels * framerate * 4
        /\ SubSeq(wav.bytes, 37, 40) = << 100, 97, 116, 97 >>
        /\ DataSize = byteCount
        /\ WavSamples = wavData

\* C3 witness: a stereo file of two frames written after the mono channel of
\* three was removed
C3_Witness ==
    /\ pc = "written"
    /\ numChannels = 3 /\ wavChannels = 2 /\ Len(wavData) = 16
    /\ Len(wav.bytes) = 60
    /\ RiffSize = 52 /\ DataSize = 16

\* C4: whenever a WAV file is produced, the payload was a whole number of
\* frames (a ragged payload is rejected)
C4_RaggedRejected ==
    pc = "written" => (numChannels > 0 /\ Len(data) % (numChannels * 4) = 0)

\* C6: writeWav ends with the destination either complete or untouched
C6_AtomicOutput ==
    pc \in {"failed", "written"} =>
        \/ wav = wavBefore
        \/ wav.exists /\ Len(wav.bytes) = 44 + Len(wavData)

\* C7: no WAV is written when the channel count that reaches the encoding
\* step or the sample rate is 0
C7_ZeroParametersRejected ==
    pc = "written" => (wavChannels # 0 /\ framerate # 0 /\ FmtChannels # 0)

\* C8: the block alignment field of a written WAV is fmt channel count * 4
C8_BlockAlignment ==
    pc = "written" =>
        /\ FmtBlockAlign = FmtChannels * 4
        /\ FmtByteRate = FmtBlockAlign * framerate

\* C9: a file shorter than 40 bytes never loads: WIR(path) fails, and a
\* header is parsed from exactly 40 bytes
C9_ShortHeaderFatal ==
    /\ (pc \notin {"main", "exit"} /\ Len(file) < HeaderLen) => pc = "failed"
    /\ pc = "loaded" => Len(header) = HeaderLen

\* C10: every iteration of the frame loop strictly advances offs
C10_LoopAdvances == [][RemoveFrame => offs' > offs]_vars

====
